---- MODULE Spec2Model ----
(***************************************************************************)
(* Model of the factory extension trait FactoryExt                         *)
(* (src/render/src/extra/factory.rs).  Every shortcut of the trait is a    *)
(* synchronous composition of calls on the underlying Factory.  The        *)
(* Factory is an instrumented backend: each of its functions answers with  *)
(* an outcome drawn from a small set, and every call a shortcut makes is   *)
(* appended, with its argument and its answer, to the trace `calls`.       *)
(***************************************************************************)
EXTENDS Integers, Sequences, FiniteSets

VARIABLES shader_model, op, input, calls, result

vars == <<shader_model, op, input, calls, result>>

----------------------------------------------------------------------------
(* Bounds *)

MaxHandle == 2        \* backend resource handles are 1..MaxHandle
MaxModel == 4         \* shading-model tiers are 1..MaxModel
MaxDim == 2           \* texture widths and heights are 0..MaxDim
MaxSlot == 1          \* descriptor slots are 1..MaxSlot
VertexCountBits == 2  \* width w of the VertexCount integer type (scaled)
MaxDataLen == (2 ^ VertexCountBits) + 1
MaxTexels == 1        \* initial texture contents hold 0..MaxTexels texels

----------------------------------------------------------------------------
(* Values *)

Handles == 1..MaxHandle
Models == 1..MaxModel
Dims == 0..MaxDim
SlotSets == SUBSET (1..MaxSlot)

Ok(v) == [tag |-> "Ok", val |-> v]
Err(e) == [tag |-> "Err", val |-> e]
NoResult == [tag |-> "None", val |-> 0]
IsOk(r) == r.tag = "Ok"
IsErr(r) == r.tag = "Err"

CreateShaderErrors == {"ModelNotSupported", "CompilationFailed"}
CreateProgramErrors == {"LinkLogA", "LinkLogB"}
InitErrors == {"VertexImport", "PixelExport"}
CreationErrors == {"CreationErrorA", "CreationErrorB"}
TextureErrors == {"UnsupportedFormat", "UnsupportedSize"}

Primitives == {"TriangleList", "Point"}
Rasterizers == {"Fill", "Line"}
Metas == {"MetaA", "MetaB"}
Vertices == {"a", "b"}

\* ProgramError (extra::shade), the variants built in factory.rs
Vertex(e) == [variant |-> "Vertex", cause |-> e]
Pixel(e) == [variant |-> "Pixel", cause |-> e]
Link(e) == [variant |-> "Link", cause |-> e]

\* PipelineStateError
ProgramLink(e) == [variant |-> "ProgramLink", cause |-> e]
DescriptorInit(e, p) == [variant |-> "DescriptorInit", cause |-> e, program |-> p]
DeviceCreate(e) == [variant |-> "DeviceCreate", cause |-> e]

\* ShaderSet::Simple(vs, ps)
Simple(vs, ps) == [kind |-> "Simple", vs |-> vs, ps |-> ps]
ShaderSets == {Simple(v, p) : v \in Handles, p \in Handles}

\* Descriptor::new(primitive, rasterizer): no slot populated yet
Descriptor_new(primitive, rasterizer) ==
    [primitive |-> primitive, rasterizer |-> rasterizer, slots |-> {}]

\* one entry of the call trace
Call(f, a, r) == [fn |-> f, arg |-> a, ret |-> r]
Unit == <<>>

----------------------------------------------------------------------------
(* Shader source selection (extra::shade::ShaderSource).  A source is the  *)
(* set of tiers it holds a blob for; the blob of tier t is identified by t.*)

ShaderSources == SUBSET Models
Codes == Models

SetMax(S) == CHOOSE x \in S : \A y \in S : y <= x

choose(src, model) ==
    LET fit == {t \in src : t <= model}
    IN  IF fit = {} THEN Err("ModelNotSupported") ELSE Ok(SetMax(fit))

----------------------------------------------------------------------------
(* Backend outcomes: what each Factory / PipelineInit function answers     *)

ShaderResults == {Ok(h) : h \in Handles} \cup {Err(e) : e \in CreateShaderErrors}
ProgramResults == {Ok(h) : h \in Handles} \cup {Err(e) : e \in CreateProgramErrors}
LinkToResults == {Ok(m) : m \in Metas} \cup {Err(e) : e \in InitErrors}
RawResults == {Ok(h) : h \in Handles} \cup {Err(e) : e \in CreationErrors}
TextureResults == {Ok(h) : h \in Handles} \cup {Err(e) : e \in TextureErrors}

Backends ==
    [create_shader_vertex : ShaderResults,
     create_shader_pixel : ShaderResults,
     create_program : ProgramResults]

PsoBackends ==
    [create_program : ProgramResults,
     link_to : LinkToResults,
     populate : SlotSets,
     create_pipeline_state_raw : RawResults]

----------------------------------------------------------------------------
(* FactoryExt::link_program *)

\* variant: both stages are compiled before either outcome is inspected
link_program_eager(b, vs_code, ps_code) ==
    LET vsR == b.create_shader_vertex
        psR == b.create_shader_pixel
        c2 == <<Call("create_shader_vertex", vs_code, vsR),
                Call("create_shader_pixel", ps_code, psR)>>
    IN  IF IsErr(vsR)
        THEN [calls |-> c2, result |-> Err(Vertex(vsR.val))]
        ELSE IF IsErr(psR)
        THEN [calls |-> c2, result |-> Err(Pixel(psR.val))]
        ELSE
        LET progR == b.create_program
            c3 == Append(c2, Call("create_program", Simple(vsR.val, psR.val), progR))
        IN  [calls |-> c3,
             result |-> IF IsErr(progR) THEN Err(Link(progR.val)) ELSE progR]

\* variant: the shader set is built with the two stages exchanged
link_program_swapped_set(b, vs_code, ps_code) ==
    LET vsR == b.create_shader_vertex
        c1 == <<Call("create_shader_vertex", vs_code, vsR)>>
    IN  IF IsErr(vsR)
        THEN [calls |-> c1, result |-> Err(Vertex(vsR.val))]
        ELSE
        LET psR == b.create_shader_pixel
            c2 == Append(c1, Call("create_shader_pixel", ps_code, psR))
        IN  IF IsErr(psR)
            THEN [calls |-> c2, result |-> Err(Pixel(psR.val))]
            ELSE
            LET progR == b.create_program
                c3 == Append(c2, Call("create_program",
                                      Simple(psR.val, vsR.val), progR))
            IN  [calls |-> c3,
                 result |-> IF IsErr(progR) THEN Err(Link(progR.val)) ELSE progR]

link_program(b, vs_code, ps_code) ==
    LET vsR == b.create_shader_vertex
        c1 == <<Call("create_shader_vertex", vs_code, vsR)>>
    IN  IF IsErr(vsR)
        THEN [calls |-> c1, result |-> Err(Vertex(vsR.val))]
        ELSE
        LET psR == b.create_shader_pixel
            c2 == Append(c1, Call("create_shader_pixel", ps_code, psR))
        IN  IF IsErr(psR)
            THEN [calls |-> c2, result |-> Err(Pixel(psR.val))]
            ELSE
            LET set == Simple(vsR.val, psR.val)
                progR == b.create_program
                c3 == Append(c2, Call("create_program", set, progR))
            IN  [calls |-> c3,
                 result |-> IF IsErr(progR) THEN Err(Link(progR.val)) ELSE progR]

(* FactoryExt::link_program_source *)

\* variant: a lone vertex-selection failure is tagged as a pixel failure
link_program_source_one_tag(b, model, vs_src, ps_src) ==
    LET c0 == <<Call("get_capabilities", Unit, model)>>
        vsC == choose(vs_src, model)
        psC == choose(ps_src, model)
        c2 == c0 \o <<Call("choose", [src |-> vs_src, model |-> model], vsC),
                       Call("choose", [src |-> ps_src, model |-> model], psC)>>
    IN  IF IsOk(vsC) /\ IsOk(psC)
        THEN LET r == link_program(b, vsC.val, psC.val)
             IN  [calls |-> c2 \o r.calls, result |-> r.result]
        ELSE [calls |-> c2, result |-> Err(Pixel("ModelNotSupported"))]

link_program_source(b, model, vs_src, ps_src) ==
    LET c0 == <<Call("get_capabilities", Unit, model)>>
        vsC == choose(vs_src, model)
        psC == choose(ps_src, model)
        c2 == c0 \o <<Call("choose", [src |-> vs_src, model |-> model], vsC),
                       Call("choose", [src |-> ps_src, model |-> model], psC)>>
    IN  IF IsOk(vsC) /\ IsOk(psC)
        THEN LET r == link_program(b, vsC.val, psC.val)
             IN  [calls |-> c2 \o r.calls, result |-> r.result]
        ELSE IF IsErr(vsC) /\ IsOk(psC)
        THEN [calls |-> c2, result |-> Err(Vertex("ModelNotSupported"))]
        ELSE [calls |-> c2, result |-> Err(Pixel("ModelNotSupported"))]


----------------------------------------------------------------------------
(* FactoryExt::create_pipeline_state *)

\* variant: the error carries the vertex shader of the set, not the program
create_pipeline_state_stale_program(b, shaders, primitive, rasterizer, init) ==
    LET progR == b.create_program
        c1 == <<Call("create_program", shaders, progR)>>
    IN  IF IsErr(progR)
        THEN [calls |-> c1, result |-> Err(ProgramLink(progR.val))]
        ELSE
        LET program == progR.val
            descriptor0 == Descriptor_new(primitive, rasterizer)
            metaR == b.link_to
            descriptor == [descriptor0 EXCEPT !.slots = b.populate]
            c2 == Append(c1, Call("link_to",
                                  [init |-> init, descriptor |-> descriptor0,
                                   info |-> program], metaR))
        IN  IF IsErr(metaR)
            THEN [calls |-> c2, result |-> Err(DescriptorInit(metaR.val, shaders.vs))]
            ELSE
            LET rawR == b.create_pipeline_state_raw
                c3 == Append(c2, Call("create_pipeline_state_raw",
                                      [program |-> program,
                                       descriptor |-> descriptor], rawR))
            IN  IF IsErr(rawR)
                THEN [calls |-> c3, result |-> Err(DeviceCreate(rawR.val))]
                ELSE [calls |-> c3,
                      result |-> Ok([raw |-> rawR.val, primitive |-> primitive,
                                     meta |-> metaR.val])]

\* variant: the device is asked to realize the descriptor before the
\* outcome of link_to is inspected
create_pipeline_state_raw_first(b, shaders, primitive, rasterizer, init) ==
    LET progR == b.create_program
        c1 == <<Call("create_program", shaders, progR)>>
    IN  IF IsErr(progR)
        THEN [calls |-> c1, result |-> Err(ProgramLink(progR.val))]
        ELSE
        LET program == progR.val
            descriptor0 == Descriptor_new(primitive, rasterizer)
            metaR == b.link_to
            descriptor == [descriptor0 EXCEPT !.slots = b.populate]
            rawR == b.create_pipeline_state_raw
            c3 == c1 \o <<Call("link_to",
                               [init |-> init, descriptor |-> descriptor0,
                                info |-> program], metaR),
                          Call("create_pipeline_state_raw",
                               [program |-> program,
                                descriptor |-> descriptor], rawR)>>
        IN  IF IsErr(rawR)
            THEN [calls |-> c3, result |-> Err(DeviceCreate(rawR.val))]
            ELSE IF IsErr(metaR)
            THEN [calls |-> c3, result |-> Err(DescriptorInit(metaR.val, program))]
            ELSE [calls |-> c3,
                  result |-> Ok([raw |-> rawR.val, primitive |-> primitive,
                                 meta |-> metaR.val])]

\* variant: the descriptor is populated before the outcome of create_program
\* is inspected
create_pipeline_state_link_first(b, shaders, primitive, rasterizer, init) ==
    LET progR == b.create_program
        descriptor0 == Descriptor_new(primitive, rasterizer)
        metaR == b.link_to
        descriptor == [descriptor0 EXCEPT !.slots = b.populate]
        c2 == <<Call("create_program", shaders, progR),
                Call("link_to", [init |-> init, descriptor |-> descriptor0,
                                 info |-> progR.val], metaR)>>
    IN  IF IsErr(progR)
        THEN [calls |-> c2, result |-> Err(ProgramLink(progR.val))]
        ELSE IF IsErr(metaR)
        THEN [calls |-> c2, result |-> Err(DescriptorInit(metaR.val, progR.val))]
        ELSE
        LET rawR == b.create_pipeline_state_raw
            c3 == Append(c2, Call("create_pipeline_state_raw",
                                  [program |-> progR.val,
                                   descriptor |-> descriptor], rawR))
        IN  IF IsErr(rawR)
            THEN [calls |-> c3, result |-> Err(DeviceCreate(rawR.val))]
            ELSE [calls |-> c3,
                  result |-> Ok([raw |-> rawR.val, primitive |-> primitive,
                                 meta |-> metaR.val])]

create_pipeline_state(b, shaders, primitive, rasterizer, init) ==
    LET progR == b.create_program
        c1 == <<Call("create_program", shaders, progR)>>
    IN  IF IsErr(progR)
        THEN [calls |-> c1, result |-> Err(ProgramLink(progR.val))]
        ELSE
        LET program == progR.val
            descriptor0 == Descriptor_new(primitive, rasterizer)
            metaR == b.link_to
            \* link_to fills the descriptor it borrows mutably
            descriptor == [descriptor0 EXCEPT !.slots = b.populate]
            c2 == Append(c1, Call("link_to",
                                  [init |-> init, descriptor |-> descriptor0,
                                   info |-> program], metaR))
        IN  IF IsErr(metaR)
            THEN [calls |-> c2, result |-> Err(DescriptorInit(metaR.val, program))]
            ELSE
            LET rawR == b.create_pipeline_state_raw
                c3 == Append(c2, Call("create_pipeline_state_raw",
                                      [program |-> program,
                                       descriptor |-> descriptor], rawR))
            IN  IF IsErr(rawR)
                THEN [calls |-> c3, result |-> Err(DeviceCreate(rawR.val))]
                ELSE [calls |-> c3,
                      result |-> Ok([raw |-> rawR.val, primitive |-> primitive,
                                     meta |-> metaR.val])]

----------------------------------------------------------------------------
(* Textures, sampler, mesh *)

TextureInfo(width, height, depth, levels, kind, format) ==
    [width |-> width, height |-> height, depth |-> depth, levels |-> levels,
     kind |-> kind, format |-> format]

D2Single == "D2(Single)"

\* variant: width and height exchanged
create_texture_rgba8_transposed(texR, width, height) ==
    LET info == TextureInfo(height, width, 1, 1, D2Single, "RGBA8")
    IN  [calls |-> <<Call("create_texture", info, texR)>>, result |-> texR]

create_texture_rgba8(texR, width, height) ==
    LET info == TextureInfo(width, height, 1, 1, D2Single, "RGBA8")
    IN  [calls |-> <<Call("create_texture", info, texR)>>, result |-> texR]

\* variant: the mipmap chain is never generated
create_texture_rgba8_static_no_mipmap(texR, width, height, data) ==
    LET info == TextureInfo(width, height, 1, 99, D2Single, "RGBA8")
    IN  [calls |-> <<Call("create_texture_static",
                          [info |-> info, data |-> data], texR)>>,
         result |-> texR]

create_texture_rgba8_static(texR, width, height, data) ==
    LET info == TextureInfo(width, height, 1, 99, D2Single, "RGBA8")
        c1 == <<Call("create_texture_static", [info |-> info, data |-> data], texR)>>
    IN  IF IsOk(texR)
        THEN [calls |-> Append(c1, Call("generate_mipmap", texR.val, Unit)),
              result |-> Ok(texR.val)]
        ELSE [calls |-> c1, result |-> Err(texR.val)]

create_texture_depth_stencil(texR, width, height) ==
    LET info == TextureInfo(width, height, 0, 1, D2Single, "DEPTH24_STENCIL8")
    IN  [calls |-> <<Call("create_texture", info, texR)>>, result |-> texR]

create_sampler_linear(sampler) ==
    [calls |-> <<Call("create_sampler",
                      [filter |-> "Trilinear", wrap |-> "Clamp"], sampler)>>,
     result |-> sampler]

\* `nv as VertexCount`: the cast keeps the low VertexCountBits bits
AsVertexCount(nv) == nv % (2 ^ VertexCountBits)

\* variant: the count saturates at the largest VertexCount
create_mesh_saturating(buf, data) ==
    LET nv == Len(data)
        top == (2 ^ VertexCountBits) - 1
    IN  [calls |-> <<Call("create_buffer_static",
                          [data |-> data, role |-> "Vertex"], buf)>>,
         result |-> [buffer |-> buf,
                     num_vertices |-> IF nv > top THEN top ELSE nv]]

create_mesh(buf, data) ==
    LET nv == Len(data)
    IN  [calls |-> <<Call("create_buffer_static",
                          [data |-> data, role |-> "Vertex"], buf)>>,
         result |-> [buffer |-> buf, num_vertices |-> AsVertexCount(nv)]]

SeqsUpTo(S, n) == UNION {[1..k -> S] : k \in 0..n}
VertexData == SeqsUpTo(Vertices, MaxDataLen)
TexelData == SeqsUpTo({0, 1}, MaxTexels)

----------------------------------------------------------------------------
Init ==
    /\ shader_model \in Models
    /\ op = "none"
    /\ input = Unit
    /\ calls = <<>>
    /\ result = NoResult

LinkProgram ==
    /\ op = "none"
    /\ \E vs_code \in Codes, ps_code \in Codes, b \in Backends :
         LET r == link_program(b, vs_code, ps_code)
         IN  /\ op' = "link_program"
             /\ input' = [vs_code |-> vs_code, ps_code |-> ps_code]
             /\ calls' = r.calls
             /\ result' = r.result
    /\ UNCHANGED shader_model

LinkProgramSource ==
    /\ op = "none"
    /\ \E vs_src \in ShaderSources, ps_src \in ShaderSources, b \in Backends :
         LET r == link_program_source(b, shader_model, vs_src, ps_src)
         IN  /\ op' = "link_program_source"
             /\ input' = [vs_src |-> vs_src, ps_src |-> ps_src]
             /\ calls' = r.calls
             /\ result' = r.result
    /\ UNCHANGED shader_model

CreatePipelineState ==
    /\ op = "none"
    /\ \E shaders \in ShaderSets, primitive \in Primitives,
          rasterizer \in Rasterizers, b \in PsoBackends :
         LET r == create_pipeline_state(b, shaders, primitive, rasterizer, "init")
         IN  /\ op' = "create_pipeline_state"
             /\ input' = [shaders |-> shaders, primitive |-> primitive,
                          rasterizer |-> rasterizer]
             /\ calls' = r.calls
             /\ result' = r.result
    /\ UNCHANGED shader_model

CreateTextureRgba8 ==
    /\ op = "none"
    /\ \E width \in Dims, height \in Dims, texR \in TextureResults :
         LET r == create_texture_rgba8(texR, width, height)
         IN  /\ op' = "create_texture_rgba8"
             /\ input' = [width |-> width, height |-> height]
             /\ calls' = r.calls
             /\ result' = r.result
    /\ UNCHANGED shader_model

CreateTextureRgba8Static ==
    /\ op = "none"
    /\ \E width \in Dims, height \in Dims, data \in TexelData,
          texR \in TextureResults :
         LET r == create_texture_rgba8_static(texR, width, height, data)
         IN  /\ op' = "create_texture_rgba8_static"
             /\ input' = [width |-> width, height |-> height, data |-> data]
             /\ calls' = r.calls
             /\ result' = r.result
    /\ UNCHANGED shader_model

CreateTextureDepthStencil ==
    /\ op = "none"
    /\ \E width \in Dims, height \in Dims, texR \in TextureResults :
         LET r == create_texture_depth_stencil(texR, width, height)
         IN  /\ op' = "create_texture_depth_stencil"
             /\ input' = [width |-> width, height |-> height]
             /\ calls' = r.calls
             /\ result' = r.result
    /\ UNCHANGED shader_model

CreateSamplerLinear ==
    /\ op = "none"
    /\ \E sampler \in Handles :
         LET r == create_sampler_linear(sampler)
         IN  /\ op' = "create_sampler_linear"
             /\ input' = Unit
             /\ calls' = r.calls
             /\ result' = r.result
    /\ UNCHANGED shader_model

CreateMesh ==
    /\ op = "none"
    /\ \E data \in VertexData, buf \in Handles :
         LET r == create_mesh(buf, data)
         IN  /\ op' = "create_mesh"
             /\ input' = [data |-> data]
             /\ calls' = r.calls
             /\ result' = r.result
    /\ UNCHANGED shader_model

\* the caller takes the result; the trace is cleared for the next call
Return ==
    /\ op # "none"
    /\ op' = "none"
    /\ input' = Unit
    /\ calls' = <<>>
    /\ result' = NoResult
    /\ UNCHANGED shader_model

Next ==
    \/ LinkProgram
    \/ LinkProgramSource
    \/ CreatePipelineState
    \/ CreateTextureRgba8
    \/ CreateTextureRgba8Static
    \/ CreateTextureDepthStencil
    \/ CreateSamplerLinear
    \/ CreateMesh
    \/ Return

Spec == Init /\ [][Next]_vars

----------------------------------------------------------------------------
(* Properties of the call trace *)

CallsOf(f) == {i \in 1..Len(calls) : calls[i].fn = f}
Count(f) == Cardinality(CallsOf(f))
InLinkProgram == op \in {"link_program", "link_program_source"}
InPso == op = "create_pipeline_state"
PsoOrder == <<"create_program", "link_to", "create_pipeline_state_raw">>
PsoVariant == <<"ProgramLink", "DescriptorInit", "DeviceCreate">>

\* C1: in link_program_source, when the selection fails for both stages the
\* vertex-stage failure is the one reported, Err(Vertex(ModelNotSupported)),
\* and the pixel-stage selection is not evaluated.
C1_BothFailReportsVertex ==
    (/\ op = "link_program_source"
     /\ IsErr(choose(input.vs_src, shader_model))
     /\ IsErr(choose(input.ps_src, shader_model)))
    => /\ result = Err(Vertex("ModelNotSupported"))
       /\ Count("choose") = 1

\* C2: in link_program, if create_shader_vertex fails with cause e the result
\* is Err(Vertex(e)) and neither create_shader_pixel nor create_program is
\* invoked during the call.
C2_VertexFailureStops ==
    InLinkProgram =>
        \A i \in CallsOf("create_shader_vertex") :
            IsErr(calls[i].ret) =>
                /\ result = Err(Vertex(calls[i].ret.val))
                /\ Count("create_shader_pixel") = 0
                /\ Count("create_program") = 0

C2_Witness ==
    /\ op = "link_program"
    /\ Len(calls) = 1
    /\ calls[1] = Call("create_shader_vertex", input.vs_code, Err("CompilationFailed"))
    /\ result = Err(Vertex("CompilationFailed"))

\* C3: in link_program_source, if the selection fails for at least one stage
\* the result is a stage-tagged ModelNotSupported error (Pixel when only the
\* pixel selection fails, Vertex when only the vertex selection fails) and
\* no shader is compiled and no program linked; compilation is attempted
\* only when both selections succeed.
C3_SelectionFailsFast ==
    op = "link_program_source" =>
        LET vsC == choose(input.vs_src, shader_model)
            psC == choose(input.ps_src, shader_model)
            compiled == Count("create_shader_vertex") + Count("create_shader_pixel")
                        + Count("create_program")
        IN  /\ (IsErr(vsC) \/ IsErr(psC)) =>
                   /\ IsErr(result)
                   /\ result.val.variant \in {"Vertex", "Pixel"}
                   /\ result.val.cause = "ModelNotSupported"
                   /\ compiled = 0
            /\ (IsOk(vsC) /\ IsErr(psC)) => result = Err(Pixel("ModelNotSupported"))
            /\ (IsErr(vsC) /\ IsOk(psC)) => result = Err(Vertex("ModelNotSupported"))
            /\ compiled > 0 => (IsOk(vsC) /\ IsOk(psC))
            /\ (IsOk(vsC) /\ IsOk(psC)) => Count("create_shader_vertex") = 1

\* device shader model 3, vertex source with tiers {2, 3}, pixel source {4}
C3_Witness ==
    /\ op = "link_program_source"
    /\ shader_model = 3
    /\ input.vs_src = {2, 3}
    /\ input.ps_src = {4}
    /\ result = Err(Pixel("ModelNotSupported"))
    /\ Count("create_shader_vertex") = 0

\* C4: in create_pipeline_state, if create_program succeeds with program p
\* and link_to fails with cause e, the result is Err(DescriptorInit(e, p))
\* with p the handle create_program returned, and create_pipeline_state_raw
\* is not invoked.
C4_DescriptorInitCarriesProgram ==
    InPso =>
        \A i \in CallsOf("create_program"), j \in CallsOf("link_to") :
            (IsOk(calls[i].ret) /\ IsErr(calls[j].ret)) =>
                /\ result = Err(DescriptorInit(calls[j].ret.val, calls[i].ret.val))
                /\ Count("create_pipeline_state_raw") = 0

C4_Witness ==
    /\ InPso
    /\ input.shaders = Simple(1, 1)
    /\ Len(calls) = 2
    /\ calls[1].fn = "create_program" /\ calls[1].ret = Ok(2)
    /\ calls[2].fn = "link_to" /\ calls[2].ret = Err("VertexImport")
    /\ result = Err(DescriptorInit("VertexImport", 2))

\* C5: every create_pipeline_state calls create_program, link_to and
\* create_pipeline_state_raw in that order, each at most once and each only
\* after the previous one succeeded; Err(DeviceCreate(e)) is returned only
\* when create_program and link_to both succeeded, and a failed call yields
\* exactly the one error variant of the first stage that failed.
C5_PsoStagesInOrder ==
    InPso =>
        LET n == Len(calls)
        IN  /\ n \in 1..3
            /\ \A i \in 1..n : calls[i].fn = PsoOrder[i]
            /\ \A i \in 1..(n - 1) : IsOk(calls[i].ret)
            /\ IsErr(result) <=> IsErr(calls[n].ret)
            /\ IsErr(result) =>
                   /\ result.val.variant = PsoVariant[n]
                   /\ result.val.cause = calls[n].ret.val
            /\ IsOk(result) => n = 3
            /\ (IsErr(result) /\ result.val.variant = "DeviceCreate") =>
                   /\ n = 3
                   /\ IsOk(calls[1].ret)
                   /\ IsOk(calls[2].ret)

C5_Witness ==
    /\ InPso
    /\ Len(calls) = 3
    /\ IsOk(calls[1].ret)
    /\ IsOk(calls[2].ret)
    /\ calls[3].ret = Err("CreationErrorB")
    /\ result = Err(DeviceCreate("CreationErrorB"))

\* C6: in create_pipeline_state, if create_program fails with cause e the
\* result is Err(ProgramLink(e)), e unchanged, and neither link_to nor
\* create_pipeline_state_raw is invoked.
C6_ProgramLinkStops ==
    InPso =>
        \A i \in CallsOf("create_program") :
            IsErr(calls[i].ret) =>
                /\ result = Err(ProgramLink(calls[i].ret.val))
                /\ Count("link_to") = 0
                /\ Count("create_pipeline_state_raw") = 0

C6_Witness ==
    /\ InPso
    /\ calls = <<Call("create_program", input.shaders, Err("LinkLogB"))>>
    /\ result = Err(ProgramLink("LinkLogB"))

\* C7: create_texture_rgba8_static calls generate_mipmap exactly once, on
\* the handle it returns and after create_texture_static, when
\* create_texture_static succeeds; when it fails, generate_mipmap is not
\* called and the backend's TextureError is returned unchanged.
C7_MipmapOnceOnSuccess ==
    op = "create_texture_rgba8_static" =>
        /\ Len(calls) >= 1
        /\ CallsOf("create_texture_static") = {1}
        /\ IsOk(calls[1].ret) =>
               /\ CallsOf("generate_mipmap") = {2}
               /\ calls[2].arg = calls[1].ret.val
               /\ result = Ok(calls[1].ret.val)
        /\ IsErr(calls[1].ret) =>
               /\ Count("generate_mipmap") = 0
               /\ result = calls[1].ret

C7_Witness ==
    /\ op = "create_texture_rgba8_static"
    /\ Len(calls) = 2
    /\ calls[1].ret = Ok(2)
    /\ calls[2] = Call("generate_mipmap", 2, Unit)
    /\ result = Ok(2)

\* C8: create_texture_rgba8(w, h) makes exactly one create_texture call,
\* with TextureInfo {width w, height h, depth 1, levels 1, D2 single-sample,
\* RGBA8}, and returns that call's result unchanged.
C8_Rgba8TextureInfo ==
    op = "create_texture_rgba8" =>
        /\ Len(calls) = 1
        /\ calls[1].fn = "create_texture"
        /\ calls[1].arg = [width |-> input.width, height |-> input.height,
                           depth |-> 1, levels |-> 1, kind |-> "D2(Single)",
                           format |-> "RGBA8"]
        /\ result = calls[1].ret

C8_Witness ==
    /\ op = "create_texture_rgba8"
    /\ input.width = 2
    /\ input.height = 1
    /\ calls[1].arg.width = 2
    /\ calls[1].arg.height = 1
    /\ result = Ok(1)

\* C9: in link_program, create_program is invoked exactly when both
\* create_shader_vertex and create_shader_pixel succeeded, once, after both,
\* with ShaderSet::Simple of exactly those two shaders; a pixel failure e
\* gives Err(Pixel(e)), a create_program failure e gives Err(Link(e)), and
\* otherwise the result is the program create_program returned.
C9_ProgramLinkedFromBothShaders ==
    InLinkProgram =>
        LET vsOk == {i \in CallsOf("create_shader_vertex") : IsOk(calls[i].ret)}
            psOk == {i \in CallsOf("create_shader_pixel") : IsOk(calls[i].ret)}
            cp == CallsOf("create_program")
        IN  /\ Count("create_program") <= 1
            /\ (cp # {}) <=> (vsOk # {} /\ psOk # {})
            /\ \A k \in cp :
                   /\ \A i \in vsOk \cup psOk : i < k
                   /\ \E i \in vsOk, j \in psOk :
                          calls[k].arg = Simple(calls[i].ret.val, calls[j].ret.val)
                   /\ Cardinality(vsOk) = 1 /\ Cardinality(psOk) = 1
                   /\ IsErr(calls[k].ret) => result = Err(Link(calls[k].ret.val))
                   /\ IsOk(calls[k].ret) => result = calls[k].ret
            /\ \A j \in CallsOf("create_shader_pixel") :
                   IsErr(calls[j].ret) => result = Err(Pixel(calls[j].ret.val))

C9_Witness ==
    /\ op = "link_program"
    /\ Len(calls) = 3
    /\ calls[1].ret = Ok(1)
    /\ calls[2].ret = Ok(2)
    /\ calls[3] = Call("create_program", Simple(1, 2), Ok(2))
    /\ result = Ok(2)

\* C10: create_mesh checks no bound: it passes the whole slice to
\* create_buffer_static with the Vertex role and returns a mesh whose vertex
\* count is the length n cast to the w-bit VertexCount, n mod 2^w; the count
\* equals n only when n < 2^w and is truncated, without error, otherwise.
C10_MeshCountTruncates ==
    op = "create_mesh" =>
        LET n == Len(input.data)
            w == VertexCountBits
        IN  /\ calls = <<Call("create_buffer_static",
                              [data |-> input.data, role |-> "Vertex"],
                              result.buffer)>>
            /\ DOMAIN result = {"buffer", "num_vertices"}
            /\ result.num_vertices = n % (2 ^ w)
            /\ (result.num_vertices = n) <=> (n < 2 ^ w)

C10_Witness ==
    /\ op = "create_mesh"
    /\ Len(input.data) = (2 ^ VertexCountBits) + 1
    /\ result.num_vertices = 1
    /\ Len(calls[1].arg.data) = (2 ^ VertexCountBits) + 1

====
